---- MODULE Spec2Model ----
(***************************************************************************)
(* Top Prop Picks (src/app.py): the prop ledger (saved_props.csv), its     *)
(* outcome-resolution pass, and the aggregation / projection pipeline.     *)
(*                                                                         *)
(* The ledger is a CSV file that is read with pandas.read_csv and written  *)
(* with DataFrame.to_csv.  A cell of a DataFrame is modelled as a pair     *)
(* <<tag, text>>: tag is the value's type ("int", "float", "str", "nan")   *)
(* and text is what to_csv writes for it.  A cell of the file is the text. *)
(* Floats are modelled as exact rationals [num, den]; den = 0 is NaN.      *)
(***************************************************************************)
EXTENDS Integers, Sequences, FiniteSets, TLC

VARIABLES
    file,       \* saved_props.csv on disk
    upstream,   \* what the stats API returns for (player 7, game 1)
    last,       \* the last operation, whether it raised, the record it appended
    series,     \* compute_hit_rate: the stat series (nulls allowed)
    line,       \* compute_hit_rate / run_analysis: the betting line
    hit,        \* compute_hit_rate: the (hit_rate, hits, total) returned
    games,      \* get_team_defensive_rating: the season games the API returns
    rating,     \* get_team_defensive_rating: the result (or the exception)
    stats,      \* run_analysis: the player's game rows in fetch order
    shuffles,   \* run_analysis: transpositions applied to the API's order of the rows
    venue,      \* run_analysis: the upcoming game resolved (or not)
    analysis,   \* run_analysis: what the analysis computed
    raw,        \* stats_list_to_df: the raw stat records it is given
    frame,      \* stats_list_to_df: what it returned (or the exception)
    pages,      \* the stats endpoint: the page it serves for each cursor
    pc,         \* get_player_stats: where the call is ("idle", "loop", "done")
    cursor,     \* get_player_stats: the loop's cursor
    all_stats,  \* get_player_stats: the records accumulated
    requested,  \* get_player_stats: the cursor parameter of every request sent
    response,   \* api_get: what the last call did and returned
    ui          \* the page: the widgets' values, what is rendered, the last event

vars == <<file, upstream, last, series, line, hit, games, rating, stats, shuffles, venue,
          analysis, raw, frame, pages, pc, cursor, all_stats, requested, response, ui>>

ledgerVars == <<file, upstream, last>>
hitVars == <<series, line, hit>>
defVars == <<games, rating>>
runVars == <<stats, shuffles, venue, analysis>>
dfVars == <<raw, frame>>
apiVars == <<pages, pc, cursor, all_stats, requested, response>>
uiVars == <<ui>>
otherVars == <<dfVars, apiVars, uiVars>>

-----------------------------------------------------------------------------
(* Bounds of the model *)

MaxRows == 2        \* ledger rows
MaxPts == 2         \* largest stat value the upstream reports for the saved game
MaxSeries == 5      \* length of the stat series given to compute_hit_rate
MaxGames == 2       \* season games the API returns to get_team_defensive_rating
MaxFetch == 4       \* player-game rows of a short season (any rows, any order)
MaxSeason == 15     \* player-game rows of a long season
MaxShuffles == 1    \* transpositions applied to the fetch order of a long season
MaxRaw == 2         \* raw stat records given to stats_list_to_df
MaxCursor == 2      \* cursors the stats endpoint hands out

-----------------------------------------------------------------------------
(* Values *)

\* None / NaN of a numeric stat field (stat values are never negative)
Null == -1

\* a key the API record does not have (dict.get then returns its default)
Absent == -2

\* a null DataFrame cell (None, NaN)
NaN == <<"nan", "">>

\* STAT_FIELD_MAP: the stat names the UI offers and the API field of each
STAT_FIELD_MAP(stat) ==
    CASE stat = "Points" -> "pts"
      [] stat = "Minutes" -> "min"
      [] OTHER -> ""

\* The fields of a ledger row that the model keeps, in the order of the header.
Columns == <<"player_id", "stat", "line", "odds", "projection", "game_id", "outcome">>

ColumnSet == {Columns[i] : i \in DOMAIN Columns}

Final == {"Line Achieved", "Line Not Achieved"}

-----------------------------------------------------------------------------
(* pandas.read_csv / DataFrame.to_csv, as load_saved_props and save_props   *)
(* use them (default arguments).                                            *)

\* texts read_csv's integer parser accepts
IntTexts == {"1", "7", "+150", "150"}

\* texts read_csv's float parser accepts (the integer texts included)
NumTexts == IntTexts \cup {"1.0", "7.0", "150.0", "2.0", "2.5"}

\* texts read_csv turns into NaN (its default na_values; "" and "N/A" are two of them)
NaTexts == {"", "N/A"}

\* twice the number a numeric text denotes
Twice(t) ==
    CASE t \in {"1", "1.0"} -> 2
      [] t \in {"7", "7.0"} -> 14
      [] t \in {"+150", "150", "150.0"} -> 300
      [] t = "2.0" -> 4
      [] t = "2.5" -> 5
      [] OTHER -> 0

\* repr of the float a numeric text denotes: what to_csv writes for it
FloatText(t) ==
    CASE t \in {"1", "1.0"} -> "1.0"
      [] t \in {"7", "7.0"} -> "7.0"
      [] t \in {"+150", "150", "150.0"} -> "150.0"
      [] OTHER -> t

\* str of the integer an integer text denotes (the parser drops a leading "+")
IntText(t) == IF t = "+150" THEN "150" ELSE t

NoFile == [kind |-> "absent", cols |-> <<>>, rows |-> <<>>]
Unparseable == [kind |-> "garbage", cols |-> <<>>, rows |-> <<>>]

EmptyFrame == [cols |-> <<>>, rows |-> <<>>]

Range(s) == {s[i] : i \in DOMAIN s}

\* the dtype read_csv infers for a column from all of its cells
ColDtype(f, c) ==
    LET texts == {f.rows[i][c] : i \in DOMAIN f.rows}
        vals == {t \in texts : t \notin NaTexts}
    IN  IF vals \subseteq IntTexts
        THEN (IF vals = texts THEN "int" ELSE "float")
        ELSE IF vals \subseteq NumTexts THEN "float" ELSE "object"

ParseCell(dtype, t) ==
    IF t \in NaTexts THEN NaN
    ELSE CASE dtype = "int" -> <<"int", IntText(t)>>
           [] dtype = "float" -> <<"float", FloatText(t)>>
           [] OTHER -> <<"str", t>>

read_csv(f) ==
    LET dtypes == [c \in Range(f.cols) |-> ColDtype(f, c)]
    IN  [cols |-> f.cols,
         rows |-> [i \in DOMAIN f.rows |->
                     [c \in Range(f.cols) |-> ParseCell(dtypes[c], f.rows[i][c])]]]

to_csv(df) ==
    [kind |-> "csv",
     cols |-> df.cols,
     rows |-> [i \in DOMAIN df.rows |-> [c \in Range(df.cols) |-> df.rows[i][c][2]]]]

\* DataFrame.empty: no rows or no columns
IsEmpty(df) == Len(df.rows) = 0 \/ Len(df.cols) = 0

-----------------------------------------------------------------------------
(* Persistence for saved props *)

load_saved_props(f) ==
    IF f.kind = "absent" THEN [cols |-> Columns, rows |-> <<>>]
    ELSE IF f.kind = "garbage" THEN EmptyFrame
    ELSE read_csv(f)

save_props(df) == to_csv(df)

\* the dtype of a column of a loaded frame (a column it lacks is filled with NaN)
FrameDtype(df, c) ==
    LET tags == {df.rows[i][c][1] : i \in DOMAIN df.rows}
    IN  IF c \notin Range(df.cols) THEN "float"
        ELSE IF tags \subseteq {"int"} THEN "int"
        ELSE IF tags \subseteq {"int", "float", "nan"} THEN "float"
        ELSE "object"

\* the dtype of a column of pd.DataFrame([new_row])
RowDtype(cell) == IF cell[1] \in {"int", "float"} THEN cell[1] ELSE "object"

CommonDtype(a, b) ==
    IF a = "int" /\ b = "int" THEN "int"
    ELSE IF a \in {"int", "float"} /\ b \in {"int", "float"} THEN "float"
    ELSE "object"

Upcast(cell, dtype) ==
    IF dtype = "float" /\ cell[1] = "int" THEN <<"float", FloatText(cell[2])>> ELSE cell

\* pd.concat([props_df, pd.DataFrame([new_row])], ignore_index=True)
concat(df, new_row) ==
    LET extra == SelectSeq(Columns, LAMBDA c : c \notin Range(df.cols))
        cols == df.cols \o extra
        dtype == [c \in Range(cols) |->
                    IF Len(df.rows) = 0 THEN RowDtype(new_row[c])
                    ELSE CommonDtype(FrameDtype(df, c), RowDtype(new_row[c]))]
        old(i) == [c \in Range(cols) |->
                     IF c \in Range(df.cols) THEN Upcast(df.rows[i][c], dtype[c]) ELSE NaN]
        new == [c \in Range(cols) |-> Upcast(new_row[c], dtype[c])]
    IN  [cols |-> cols, rows |-> [i \in 1..Len(df.rows) |-> old(i)] \o <<new>>]

-----------------------------------------------------------------------------
(* The stats API and the normalised stat rows *)

\* a date text that is no date (pd.to_datetime cannot parse it)
BadDate == -3

\* One raw per-game stat record of the API, reduced to the fields the model reads.
\* game and team say what the record has under that key: an object ("object"),
\* null ("null"), or no such key ("absent"); date and home_team_id are the fields
\* of the game object and team_id is the id of the team object.  A date is the
\* day number its ISO text denotes, or BadDate.
RawRecord(game, team, date, team_id, home, pts) ==
    [game |-> game, team |-> team, date |-> date, team_id |-> team_id,
     home_team_id |-> home, pts |-> pts]

\* a record as the API documents it: both sub-objects present
StatRecord(date, team, home, pts) == RawRecord("object", "object", date, team, home, pts)

\* What one HTTP request can come to: a 2xx response with a JSON body, an
\* exception of requests.get, a 4xx/5xx status, or a 2xx response whose body is
\* not JSON.
Outcomes == {"ok", "Timeout", "ConnectionError", "status 404", "status 500", "not json"}

\* the exception the try block of api_get ends with ("none": it returns resp.json())
TryBlock(outcome) ==
    CASE outcome \in {"Timeout", "ConnectionError"} -> outcome
      [] outcome \in {"status 404", "status 500"} -> "HTTPError"
      [] outcome = "not json" -> "JSONDecodeError"
      [] OTHER -> "none"

\* requests.RequestException as it was before requests 2.27: resp.json() raised
\* the json module's error, which is a ValueError
RequestException_NoJson == {"Timeout", "ConnectionError", "HTTPError"}

\* the exceptions that derive from requests.RequestException
RequestException == {"Timeout", "ConnectionError", "HTTPError", "JSONDecodeError"}

\* {"data": []}: no records, and no meta, so no next_cursor
EmptyResult == [data |-> <<>>, next_cursor |-> Null]

\* api_get: one requests.get, its body when all went well, {"data": []} for a
\* RequestException; any other exception propagates
api_get(outcome, body) ==
    LET exc == TryBlock(outcome)
    IN  IF exc = "none" THEN [outcome |-> outcome, raised |-> "none", value |-> body]
        ELSE IF exc \in RequestException
             THEN [outcome |-> outcome, raised |-> "none", value |-> EmptyResult]
             ELSE [outcome |-> outcome, raised |-> exc, value |-> EmptyResult]

\* "if not cursor": None and 0 are falsy
Falsy(c) == c \in {Null, 0}

\* the loop of get_player_stats with the cursor never advanced
LoopBody_SameCursor(data, cur, acc) ==
    IF data.data = <<>> THEN [all_stats |-> acc, cursor |-> cur, done |-> TRUE]
    ELSE [all_stats |-> acc \o data.data, cursor |-> cur,
          done |-> Falsy(data.next_cursor)]

\* one iteration of the loop of get_player_stats, after api_get returned data
LoopBody(data, cur, acc) ==
    IF data.data = <<>> THEN [all_stats |-> acc, cursor |-> cur, done |-> TRUE]
    ELSE [all_stats |-> acc \o data.data, cursor |-> data.next_cursor,
          done |-> Falsy(data.next_cursor)]

\* get_player_stats(player_id, game_ids=[game_id]) as the ledger uses it: the
\* ledger's only player is 7 and its only game is 1; upstream is the API's answer
\* for that pair, which fits one page
get_player_stats(ups, player_id, game_id) ==
    IF player_id = 7 /\ game_id = 1
    THEN LoopBody(api_get("ok", [data |-> ups, next_cursor |-> Null]).value,
                  Null, <<>>).all_stats
    ELSE <<>>

\* s.get(key, {}).get(field): the default {} is used only when the key is absent
SubGet(kind, value) == IF kind = "object" /\ value # Absent THEN value ELSE Null

\* pd.to_datetime(df["date"].str[:10], errors="coerce"): NaT for what is no date
to_datetime(d) == IF d \in {Null, Absent, BadDate} THEN Null ELSE d

\* stats_list_to_df: game.get / team.get raise AttributeError on a sub-object that
\* is None; otherwise one row per record
stats_list_to_df(recs) ==
    IF \E i \in DOMAIN recs : recs[i].game = "null" \/ recs[i].team = "null"
    THEN [raised |-> "AttributeError", rows |-> <<>>]
    ELSE [raised |-> "none",
          rows |-> [i \in DOMAIN recs |->
                      [date |-> to_datetime(SubGet(recs[i].game, recs[i].date)),
                       team_id |-> SubGet(recs[i].team, recs[i].team_id),
                       home_team_id |-> SubGet(recs[i].game, recs[i].home_team_id),
                       pts |-> IF recs[i].pts = Absent THEN Null ELSE recs[i].pts]]]

-----------------------------------------------------------------------------
(* update_outcomes *)

\* row.get(c): None when the frame has no such column
RowGet(row, c) == IF c \in DOMAIN row THEN row[c] ELSE NaN

isna(cell) == cell[1] = "nan"

SetOutcome(df, i, outcome) ==
    [df EXCEPT !.rows[i] = [@ EXCEPT !["outcome"] = <<"str", outcome>>]]

\* the body of the loop for the pending row at index i: "continue", "TypeError"
\* (float(None)), "AttributeError" (stats_list_to_df), or the outcome to store
ResolveRow(row, ups) ==
    LET game_id == RowGet(row, "game_id")
        player_id == RowGet(row, "player_id")
        stat == RowGet(row, "stat")
        ln == RowGet(row, "line")
        recs == get_player_stats(ups, Twice(player_id[2]) \div 2, Twice(game_id[2]) \div 2)
        field == STAT_FIELD_MAP(stat[2])
        df_stats == stats_list_to_df(recs)
        final_value == df_stats.rows[1].pts
    IN  IF isna(game_id) \/ isna(player_id) \/ isna(ln) THEN "continue"
        ELSE IF recs = <<>> THEN "continue"
        ELSE IF df_stats.raised # "none" THEN df_stats.raised
        ELSE IF field # "pts" THEN "continue"
        ELSE IF final_value = Null THEN "TypeError"
        ELSE IF 2 * final_value >= Twice(ln[2]) THEN "Line Achieved"
        ELSE "Line Not Achieved"

RECURSIVE ResolveLoop(_, _, _)
ResolveLoop(df, pending, ups) ==
    IF pending = <<>> THEN [raised |-> "none", df |-> df]
    ELSE LET i == Head(pending)
             r == ResolveRow(df.rows[i], ups)
         IN  IF r \in {"TypeError", "AttributeError"} THEN [raised |-> r, df |-> df]
             ELSE IF r = "continue" THEN ResolveLoop(df, Tail(pending), ups)
             ELSE ResolveLoop(SetOutcome(df, i, r), Tail(pending), ups)

\* update_outcomes without its filter on Pending: every row is resolved again
PendingRows_NoFilter(df) == [i \in DOMAIN df.rows |-> i]

\* the rows df[df["outcome"] == "Pending"] selects, as their indices in order
PendingRows(df) ==
    SelectSeq([i \in DOMAIN df.rows |-> i],
              LAMBDA i : df.rows[i]["outcome"] = <<"str", "Pending">>)

update_outcomes(df, ups) ==
    IF IsEmpty(df) THEN [raised |-> "none", df |-> df]
    ELSE IF "outcome" \notin Range(df.cols) THEN [raised |-> "KeyError", df |-> df]
    ELSE ResolveLoop(df, PendingRows(df), ups)

-----------------------------------------------------------------------------
(* The ledger's operations *)

\* what the user may type as odds (free text), and the upcoming game resolved or not
OddsInputs == {"+150", "N/A", "abc"}
GameIds == {Null, 1}

\* new_row of run_analysis: the record saved for tracking
new_row(odds, game_id) ==
    [c \in ColumnSet |->
        CASE c = "player_id" -> <<"int", "7">>
          [] c = "stat" -> <<"str", "Points">>
          [] c = "line" -> <<"float", "2.0">>
          [] c = "odds" -> <<"str", odds>>
          [] c = "projection" -> <<"float", "2.5">>
          [] c = "game_id" -> (IF game_id = Null THEN NaN ELSE <<"int", "1">>)
          [] OTHER -> <<"str", "Pending">>]

NoRecord == [c \in ColumnSet |-> NaN]

\* a ledger file left by an earlier version of the program: one pending row,
\* without the column c
FileLacking(c) ==
    LET cols == SelectSeq(Columns, LAMBDA x : x # c)
    IN  [kind |-> "csv",
         cols |-> cols,
         rows |-> <<[x \in Range(cols) |-> new_row("+150", 1)[x][2]]>>]

PreExisting == {NoFile, Unparseable} \cup {FileLacking(c) : c \in ColumnSet}

\* the answers of the stats API for the saved game: nothing yet, or one record
\* whose stat is null or a number
Answers == {<<>>} \cup {<<StatRecord(1, 1, 1, v)>> : v \in {Null} \cup (1..MaxPts)}

\* run_analysis, "Save this Prop for Tracking"
SaveProp(odds, game_id) ==
    LET props_df == load_saved_props(file)
        rec == new_row(odds, game_id)
    IN  /\ Len(props_df.rows) < MaxRows
        /\ file' = save_props(concat(props_df, rec))
        /\ last' = [op |-> "append", raised |-> "none", rec |-> rec]
        /\ UNCHANGED upstream

\* main, "Saved Props & Results", over the file f: load the ledger, resolve the
\* pending outcomes, save when something changed
SavedPropsSection(f, ups) ==
    LET props_df == load_saved_props(f)
        res == update_outcomes(props_df, ups)
    IN  [file |-> IF IsEmpty(props_df) \/ res.raised # "none" \/ res.df = props_df
                  THEN f
                  ELSE save_props(res.df),
         raised |-> IF IsEmpty(props_df) THEN "none" ELSE res.raised]

MainPass ==
    LET section == SavedPropsSection(file, upstream)
    IN  /\ file' = section.file
        /\ last' = [op |-> "pass", raised |-> section.raised, rec |-> NoRecord]
        /\ UNCHANGED upstream

\* the stats API changes its answer (the game is played, a stat is corrected)
UpstreamUpdate(ans) ==
    /\ ans # upstream
    /\ upstream' = ans
    /\ last' = [op |-> "upstream", raised |-> "none", rec |-> NoRecord]
    /\ UNCHANGED file

IdleDf == raw = <<>> /\ frame = <<>>
IdleApi ==
    /\ pages = <<>> /\ pc = "idle" /\ cursor = Null /\ all_stats = <<>>
    /\ requested = <<>> /\ response = <<>>
IdleUi == ui = <<>>
IdleOther == IdleDf /\ IdleApi /\ IdleUi

IdleHit == series = <<>> /\ line = 0 /\ hit = <<>>
IdleDef == games = <<>> /\ rating = <<>>
IdleRun == stats = <<>> /\ shuffles = 0 /\ venue = <<>> /\ analysis = <<>>

\* the program's first start: no ledger file yet
Init ==
    /\ file = NoFile
    /\ upstream = <<>>
    /\ last = [op |-> "init", raised |-> "none", rec |-> NoRecord]
    /\ IdleHit /\ IdleDef /\ IdleRun /\ IdleOther

\* a start over a ledger file that something else left behind
InitStartup ==
    /\ file \in PreExisting
    /\ upstream = <<>>
    /\ last = [op |-> "init", raised |-> "none", rec |-> NoRecord]
    /\ IdleHit /\ IdleDef /\ IdleRun /\ IdleOther

Next ==
    \/ /\ \E odds \in OddsInputs, game_id \in GameIds : SaveProp(odds, game_id)
       /\ UNCHANGED <<hitVars, defVars, runVars, otherVars>>
    \/ /\ MainPass
       /\ UNCHANGED <<hitVars, defVars, runVars, otherVars>>
    \/ /\ \E ans \in Answers : UpstreamUpdate(ans)
       /\ UNCHANGED <<hitVars, defVars, runVars, otherVars>>

Spec == Init /\ [][Next]_vars

SpecStartup == InitStartup /\ [][Next]_vars

-----------------------------------------------------------------------------
(* The ledger as the program reads it, and equality of two fields up to the *)
(* type a value is stored with                                              *)

Ledger == load_saved_props(file)

IsNullCell(cell) == cell[1] = "nan" \/ cell[2] = ""

\* the same value: both empty, the same number (as int, float or text), or the
\* same text
SameValue(a, b) ==
    \/ IsNullCell(a) /\ IsNullCell(b)
    \/ /\ ~IsNullCell(a) /\ ~IsNullCell(b)
       /\ IF a[2] \in NumTexts /\ b[2] \in NumTexts
          THEN Twice(a[2]) = Twice(b[2])
          ELSE a[2] = b[2]

Outcome(row) == RowGet(row, "outcome")[2]

\* the row records a game and the API has a stat record of it for the row's player
HasRecord(row, ups) ==
    /\ ~isna(RowGet(row, "game_id"))
    /\ ~isna(RowGet(row, "player_id"))
    /\ get_player_stats(ups, Twice(RowGet(row, "player_id")[2]) \div 2,
                        Twice(RowGet(row, "game_id")[2]) \div 2) # <<>>

\* the row has the player, the stat and the line that every row saved by
\* run_analysis has
WellFormedRow(row) ==
    /\ ~isna(RowGet(row, "player_id"))
    /\ ~isna(RowGet(row, "line"))
    /\ RowGet(row, "stat") = <<"str", "Points">>

\* every row of old is in new at its place, with the same fields, the outcome the
\* same or gone from Pending to a final value
RowsKept(old, new) ==
    /\ Len(new.rows) >= Len(old.rows)
    /\ \A i \in DOMAIN old.rows : \A c \in ColumnSet :
         LET a == RowGet(old.rows[i], c)
             b == RowGet(new.rows[i], c)
         IN  \/ SameValue(a, b)
             \/ c = "outcome" /\ a = <<"str", "Pending">> /\ b[2] \in Final

(* C1: under ledger appends and outcome-resolution passes, every row of the  *)
(* ledger stays where it is, keeps every field other than outcome, and its   *)
(* outcome either stays or goes from Pending to a final value: a final       *)
(* outcome is never changed again and no row is removed or reordered.        *)
C1_OnlyPendingResolved ==
    [][RowsKept(load_saved_props(file), load_saved_props(file'))]_vars

\* a pass has run over a row already resolved to Line Not Achieved while the API
\* now reports a stat that reaches the line
C1_Witness ==
    /\ last.op = "pass"
    /\ last.raised = "none"
    /\ upstream # <<>>
    /\ upstream[1].pts = 2
    /\ \E i \in DOMAIN Ledger.rows :
         /\ Outcome(Ledger.rows[i]) = "Line Not Achieved"
         /\ HasRecord(Ledger.rows[i], upstream)

\* what a pass over old with the API answering ups is to leave in new
ResolvedByPass(old, new, ups) ==
    \A i \in DOMAIN old.rows :
        (WellFormedRow(old.rows[i]) /\ Outcome(old.rows[i]) = "Pending") =>
           /\ i \in DOMAIN new.rows
           /\ (Outcome(new.rows[i]) \in Final) = HasRecord(old.rows[i], ups)
           /\ HasRecord(old.rows[i], ups) =>
                Outcome(new.rows[i]) =
                   IF 2 * ups[1].pts >= Twice(RowGet(old.rows[i], "line")[2])
                   THEN "Line Achieved" ELSE "Line Not Achieved"

(* C2: a pass sets a row's outcome to a final value exactly when the row is  *)
(* Pending, has a game identifier and the re-fetch returns a record, the     *)
(* value being Line Achieved when actual >= line and Line Not Achieved       *)
(* otherwise (stated for the rows that have a player, a stat and a line);    *)
(* a Pending row without a game identifier stays Pending.                    *)
C2_ResolvedExactlyWhenRecord ==
    [][last'.op = "pass" =>
         ResolvedByPass(load_saved_props(file), load_saved_props(file'), upstream)]_vars

\* new is old followed by one row equal to rec
Appended(old, new, rec) ==
    /\ Len(new.rows) = Len(old.rows) + 1
    /\ \A i \in DOMAIN old.rows : \A c \in ColumnSet :
         SameValue(RowGet(old.rows[i], c), RowGet(new.rows[i], c))
    /\ \A c \in ColumnSet : SameValue(rec[c], RowGet(new.rows[Len(new.rows)], c))

(* C3: appending a record and reloading yields the previous rows in their    *)
(* previous order followed by exactly one new last row, equal to the         *)
(* appended record field for field.                                          *)
C3_AppendRoundTrip ==
    [][last'.op = "append" =>
         Appended(load_saved_props(file), load_saved_props(file'), last'.rec)]_vars

(* C4: for every pre-existing ledger file, unparseable or lacking some of    *)
(* the expected columns, the outcome-resolution pass of main completes       *)
(* without raising (stated for an API whose records carry a stat value).     *)
C4_PassNeverRaises ==
    (last.op = "pass" /\ \A k \in DOMAIN upstream : upstream[k].pts # Null)
        => last.raised = "none"

-----------------------------------------------------------------------------
(* compute_hit_rate *)

\* the float n / d; d = 0 stands for NaN
Rat(n, d) == [num |-> n, den |-> d]

\* the series taken as it is, nulls included
dropna_none(s) == s

\* Series.dropna()
dropna(s) == SelectSeq(s, LAMBDA v : v # Null)

\* compute_hit_rate with a strict comparison
compute_hit_rate_strict(s, line_value) ==
    LET clean == dropna(s)
        hits == Len(SelectSeq(clean, LAMBDA v : v > line_value))
    IN  IF clean = <<>> THEN [hit_rate |-> Rat(0, 1), hits |-> 0, total |-> 0]
        ELSE [hit_rate |-> Rat(hits, Len(clean)), hits |-> hits, total |-> Len(clean)]

compute_hit_rate(s, line_value) ==
    LET clean == dropna(s)
        hits == Len(SelectSeq(clean, LAMBDA v : v >= line_value))
        total == Len(clean)
    IN  IF clean = <<>> THEN [hit_rate |-> Rat(0, 1), hits |-> 0, total |-> 0]
        ELSE [hit_rate |-> IF total > 0 THEN Rat(hits, total) ELSE Rat(0, 1),
              hits |-> hits, total |-> total]

\* the stat values and the lines the series are drawn from
StatValues == {Null, 18, 20, 22, 25, 30}
Lines == {22, 25}

IdleLedger ==
    /\ file = NoFile
    /\ upstream = <<>>
    /\ last = [op |-> "init", raised |-> "none", rec |-> NoRecord]

InitHit ==
    /\ series = <<>>
    /\ line \in Lines
    /\ hit = <<>>
    /\ IdleLedger /\ IdleDef /\ IdleRun /\ IdleOther

\* one more game in the series
Observe(v) ==
    /\ Len(series) < MaxSeries
    /\ series' = Append(series, v)
    /\ hit' = <<>>
    /\ UNCHANGED line

\* the call compute_hit_rate(series, line)
ComputeHitRate ==
    /\ hit = <<>>
    /\ hit' = compute_hit_rate(series, line)
    /\ UNCHANGED <<series, line>>

NextHit ==
    \/ /\ \E v \in StatValues : Observe(v)
       /\ UNCHANGED <<ledgerVars, defVars, runVars, otherVars>>
    \/ /\ ComputeHitRate
       /\ UNCHANGED <<ledgerVars, defVars, runVars, otherVars>>

SpecHit == InitHit /\ [][NextHit]_vars

(* C5: compute_hit_rate returns (hitRate, hitCount, totalCount) with         *)
(* totalCount the number of non-null values, hitCount the number of non-null *)
(* values >= line, hitCount <= totalCount, 0 <= hitRate <= 1, hitRate =      *)
(* hitCount/totalCount when totalCount > 0, and (0,0,0) when no non-null     *)
(* value remains.                                                            *)
C5_HitRate ==
    hit # <<>> =>
        LET nonnull == {i \in DOMAIN series : series[i] # Null}
            reached == {i \in nonnull : series[i] >= line}
        IN  /\ hit.total = Cardinality(nonnull)
            /\ hit.hits = Cardinality(reached)
            /\ hit.hits <= hit.total
            /\ hit.hit_rate.den > 0
            /\ 0 <= hit.hit_rate.num
            /\ hit.hit_rate.num <= hit.hit_rate.den
            /\ hit.total > 0 => hit.hit_rate.num * hit.total = hit.hits * hit.hit_rate.den
            /\ hit.total = 0 => (hit.hit_rate.num = 0 /\ hit.hits = 0)

\* a series with a null, a value equal to the line and a value under it
C5_Witness ==
    /\ hit # <<>>
    /\ \E i, j, k \in DOMAIN series :
         series[i] = Null /\ series[j] = line /\ series[k] # Null /\ series[k] < line

Scenario == series = <<20, 25, 18, 30, 22>> /\ line = 22 /\ hit # <<>>

(* C6 as stated: for the rows [20, 25, 18, 30, 22] and line 22,              *)
(* compute_hit_rate returns hit rate 2/5 = 0.4, hits = 2, total = 5.         *)
C6_AsStated ==
    Scenario => (hit.hits = 2 /\ hit.total = 5 /\ hit.hit_rate.num * 5 = 2 * hit.hit_rate.den)

(* C6 as amended: for the rows [20, 25, 18, 30, 22] and line 22,             *)
(* compute_hit_rate returns hit rate 3/5 = 0.6, hits = 3, total = 5 (25, 30  *)
(* and 22 reach the line, the comparison being inclusive).                   *)
C6_Scenario ==
    Scenario => (hit.hits = 3 /\ hit.total = 5 /\ hit.hit_rate.num * 5 = 3 * hit.hit_rate.den
                 /\ hit.hit_rate.den > 0)

C6_Witness == Scenario

-----------------------------------------------------------------------------
(* get_team_defensive_rating *)

\* one game of the games endpoint
Game(status, home, visitor, home_score, visitor_score) ==
    [status |-> status, home_team_id |-> home, visitor_team_id |-> visitor,
     home_team_score |-> home_score, visitor_team_score |-> visitor_score]

\* g.get(key): None for an absent key
Get(g, key) == IF g[key] = Absent THEN Null ELSE g[key]

\* g.get(key, 0)
GetOr0(g, key) == IF g[key] = Absent THEN 0 ELSE g[key]

\* the games kept in all_games: those that involve the team
Involving(gs, team) ==
    SelectSeq(gs, LAMBDA g : Get(g, "home_team_id") = team \/ Get(g, "visitor_team_id") = team)

\* the loop over all_games: [raised, total, count]
RECURSIVE SumAllowed(_, _, _, _)
SumAllowed(gs, team, total, count) ==
    IF gs = <<>> THEN [raised |-> "none", total |-> total, count |-> count]
    ELSE LET g == Head(gs)
             add == IF Get(g, "home_team_id") = team THEN GetOr0(g, "visitor_team_score")
                    ELSE IF Get(g, "visitor_team_id") = team THEN GetOr0(g, "home_team_score")
                    ELSE 0
         IN  IF g.status # "Final" THEN SumAllowed(Tail(gs), team, total, count)
             ELSE IF add = Null THEN [raised |-> "TypeError", total |-> total, count |-> count]
             ELSE SumAllowed(Tail(gs), team, total + add, count + 1)

get_team_defensive_rating(gs, opponent_team_id) ==
    LET all_games == Involving(gs, opponent_team_id)
        r == SumAllowed(all_games, opponent_team_id, 0, 0)
    IN  IF all_games = <<>> THEN [raised |-> "none", value |-> Rat(0, 1)]
        ELSE IF r.raised # "none" THEN [raised |-> r.raised, value |-> Rat(0, 0)]
        ELSE IF r.count = 0 THEN [raised |-> "none", value |-> Rat(0, 1)]
        ELSE [raised |-> "none", value |-> Rat(r.total, r.count)]

\* the team whose rating is asked for, and what a game record may hold
Opponent == 1
TeamIds == {1, 2, Null}
Scores == {Null, Absent, 90, 110}
Statuses == {"Final", "7:30 pm ET"}

InitDef ==
    /\ games = <<>>
    /\ rating = <<>>
    /\ IdleLedger /\ IdleHit /\ IdleRun /\ IdleOther

\* the API returns one more game of the season
AddGame(g) ==
    /\ Len(games) < MaxGames
    /\ games' = Append(games, g)
    /\ rating' = <<>>

\* the call get_team_defensive_rating(opponent, season, as_of_date)
ComputeRating ==
    /\ rating = <<>>
    /\ rating' = get_team_defensive_rating(games, Opponent)
    /\ UNCHANGED games

NextDef ==
    \/ /\ \E st \in Statuses, h \in TeamIds, v \in TeamIds, hs \in Scores, vs \in Scores :
            AddGame(Game(st, h, v, hs, vs))
       /\ UNCHANGED <<ledgerVars, hitVars, runVars, otherVars>>
    \/ /\ ComputeRating
       /\ UNCHANGED <<ledgerVars, hitVars, runVars, otherVars>>

SpecDef == InitDef /\ [][NextDef]_vars

\* a qualifying game: completed, both team identifiers and both scores present,
\* the team involved
Qualifying(g, team) ==
    /\ g.status = "Final"
    /\ Get(g, "home_team_id") # Null /\ Get(g, "visitor_team_id") # Null
    /\ Get(g, "home_team_score") # Null /\ Get(g, "visitor_team_score") # Null
    /\ (Get(g, "home_team_id") = team \/ Get(g, "visitor_team_id") = team)

\* the points the team allowed in a qualifying game
Allowed(g, team) ==
    IF g.home_team_id = team THEN g.visitor_team_score ELSE g.home_team_score

RECURSIVE SumOver(_, _)
SumOver(gs, team) ==
    IF gs = <<>> THEN 0 ELSE Allowed(Head(gs), team) + SumOver(Tail(gs), team)

(* C7: for every list of season games (games not completed, games whose     *)
(* team identifiers or scores are null or absent included)                   *)
(* get_team_defensive_rating returns without raising the mean, over the      *)
(* qualifying games only, of the opponent's score, and 0.0 when no game      *)
(* qualifies.                                                                *)
C7_DefensiveRating ==
    rating # <<>> =>
        LET q == SelectSeq(games, LAMBDA g : Qualifying(g, Opponent))
        IN  /\ rating.raised = "none"
            /\ rating.value.den > 0
            /\ IF q = <<>> THEN rating.value.num = 0
               ELSE rating.value.num * Len(q) = SumOver(q, Opponent) * rating.value.den

-----------------------------------------------------------------------------
(* Floats as exact rationals in lowest terms; den = 0 is NaN *)

RECURSIVE GCD(_, _)
GCD(a, b) == IF b = 0 THEN a ELSE GCD(b, a % b)

Abs(n) == IF n < 0 THEN -n ELSE n

Norm(x) ==
    IF x.den = 0 THEN Rat(0, 0)
    ELSE LET g == GCD(Abs(x.num), Abs(x.den))
             sg == IF x.den < 0 THEN -1 ELSE 1
         IN  Rat(sg * (x.num \div g), sg * (x.den \div g))

IsNaN(x) == x.den = 0

RatAdd(x, y) ==
    IF IsNaN(x) \/ IsNaN(y) THEN Rat(0, 0)
    ELSE Norm(Rat(x.num * y.den + y.num * x.den, x.den * y.den))

RatMul(x, y) ==
    IF IsNaN(x) \/ IsNaN(y) THEN Rat(0, 0)
    ELSE Norm(Rat(x.num * y.num, x.den * y.den))

RatDiv(x, y) ==
    IF IsNaN(x) \/ IsNaN(y) \/ y.num = 0 THEN Rat(0, 0)
    ELSE Norm(Rat(x.num * y.den, x.den * y.num))

-----------------------------------------------------------------------------
(* simple_projection *)

\* league_avg_points_allowed
LeagueAvg == 114

\* simple_projection with the adjustment applied whatever the rating
simple_projection_always(last10_avg, season_avg, home_away_avg, opp_def_rating) ==
    LET baseline == RatAdd(RatAdd(RatMul(Rat(1, 2), last10_avg),
                                  RatMul(Rat(3, 10), season_avg)),
                           RatMul(Rat(1, 5), home_away_avg))
        diff == RatAdd(Rat(LeagueAvg, 1), RatMul(Rat(-1, 1), opp_def_rating))
    IN  RatMul(baseline,
               RatAdd(Rat(1, 1), RatMul(RatDiv(diff, Rat(LeagueAvg, 1)), Rat(1, 2))))

simple_projection(last10_avg, season_avg, home_away_avg, opp_def_rating) ==
    LET baseline == RatAdd(RatAdd(RatMul(Rat(1, 2), last10_avg),
                                  RatMul(Rat(3, 10), season_avg)),
                           RatMul(Rat(1, 5), home_away_avg))
        diff == RatAdd(Rat(LeagueAvg, 1), RatMul(Rat(-1, 1), opp_def_rating))
        adj_factor == IF ~IsNaN(opp_def_rating) /\ opp_def_rating.num > 0
                      THEN RatAdd(Rat(1, 1),
                                  RatMul(RatDiv(diff, Rat(LeagueAvg, 1)), Rat(1, 2)))
                      ELSE Rat(1, 1)
    IN  RatMul(baseline, adj_factor)

-----------------------------------------------------------------------------
(* run_analysis: the splits, their averages and the projection *)

\* the number of rows of the last-N split
LastN == 10

\* DataFrame.sort_values("date") left out: the rows stay in fetch order
sort_values_none(rows) == rows

\* DataFrame.sort_values("date"): ascending, rows without a date last
RECURSIVE sort_values(_)
sort_values(rows) ==
    IF rows = <<>> THEN <<>>
    ELSE LET last_row == rows[Len(rows)]
             rest == sort_values(SubSeq(rows, 1, Len(rows) - 1))
             before(r) == r.date # Null /\ (last_row.date = Null \/ r.date <= last_row.date)
         IN  SelectSeq(rest, before) \o <<last_row>>
               \o SelectSeq(rest, LAMBDA r : ~before(r))

\* DataFrame.tail(n)
tail(rows, n) ==
    IF Len(rows) <= n THEN rows ELSE SubSeq(rows, Len(rows) - n + 1, Len(rows))

RECURSIVE Sum(_)
Sum(s) == IF s = <<>> THEN 0 ELSE Head(s) + Sum(Tail(s))

\* rows[field] for the stat analysed
FieldOf(rows) == [i \in DOMAIN rows |-> rows[i].pts]

\* Series.mean(): the mean of the non-null values, NaN when there is none
mean(s) ==
    LET clean == dropna(s)
    IN  IF clean = <<>> THEN Rat(0, 0) ELSE Norm(Rat(Sum(clean), Len(clean)))

\* series.mean() without the guard on an empty series
avg_or_nan(s) == mean(s)

\* series.mean() if not series.empty else 0.0
avg_or_zero(s) == IF s # <<>> THEN mean(s) ELSE Rat(0, 1)

\* the upcoming game as run_analysis resolves it
NoUpcoming == [found |-> FALSE, is_home |-> TRUE, dated |-> FALSE, season_games |-> <<>>]

run_analysis(recs, upcoming, line_value) ==
    LET converted == stats_list_to_df(recs)
        df == converted.rows
        df_sorted == sort_values(df)
        last10 == tail(df_sorted, LastN)
        is_home == IF upcoming.found THEN upcoming.is_home ELSE TRUE
        home_rows == SelectSeq(df_sorted, LAMBDA r : r.team_id = r.home_team_id)
        away_rows == SelectSeq(df_sorted, LAMBDA r : r.team_id # r.home_team_id)
        context == IF is_home THEN home_rows ELSE away_rows
        last10_avg == avg_or_zero(FieldOf(last10))
        season_avg == avg_or_zero(FieldOf(df_sorted))
        context_avg == avg_or_zero(FieldOf(context))
        def == IF upcoming.found /\ upcoming.dated
               THEN get_team_defensive_rating(upcoming.season_games, Opponent)
               ELSE [raised |-> "none", value |-> Rat(0, 1)]
    IN  IF converted.raised # "none" THEN [status |-> converted.raised]
        ELSE IF df = <<>> THEN [status |-> "no stats"]
        ELSE IF def.raised # "none" THEN [status |-> def.raised]
        ELSE [status |-> "ok",
              last10 |-> last10,
              context |-> context,
              last10_avg |-> last10_avg,
              season_avg |-> season_avg,
              context_avg |-> context_avg,
              last10_hit |-> compute_hit_rate(FieldOf(last10), line_value),
              season_hit |-> compute_hit_rate(FieldOf(df_sorted), line_value),
              context_hit |-> compute_hit_rate(FieldOf(context), line_value),
              opp_def_rating |-> Norm(def.value),
              projection |-> simple_projection(last10_avg, season_avg, context_avg,
                                               Norm(def.value))]

\* the season games of the opponent the estimator may be given
SeasonSamples ==
    {<<>>,
     <<Game("Final", 1, 2, 100, 90)>>,
     <<Game("Final", 1, 2, 100, 110), Game("Final", 2, 1, 120, 95)>>}

Venues ==
    {NoUpcoming} \cup
    {[found |-> TRUE, is_home |-> h, dated |-> d, season_games |-> g] :
        h \in BOOLEAN, d \in BOOLEAN, g \in SeasonSamples}

PtsValues == {Null, 1, 2}

\* the line the analysis is run with
AnalysisLine == 2

\* the date (a day number) of the newest game of a short season
FirstDate == 100

\* a short season: the API returns any rows in any order
InitRun ==
    /\ stats = <<>>
    /\ shuffles = 0
    /\ venue \in Venues
    /\ line = AnalysisLine
    /\ analysis = <<>>
    /\ series = <<>> /\ hit = <<>>
    /\ IdleLedger /\ IdleDef /\ IdleOther

\* the API returns one more game of the player, the newest game first (the
\* player's team is team 1)
FetchRow(home, pts) ==
    /\ Len(stats) < MaxFetch
    /\ stats' = Append(stats, StatRecord(FirstDate - Len(stats), 1, home, pts))
    /\ analysis' = <<>>
    /\ UNCHANGED <<shuffles, venue>>

\* "Run Analysis"
RunAnalysis ==
    /\ analysis = <<>>
    /\ analysis' = run_analysis(stats, venue, line)
    /\ UNCHANGED <<stats, shuffles, venue>>

NextRun ==
    \/ /\ \E home \in {1, 2}, pts \in PtsValues : FetchRow(home, pts)
       /\ UNCHANGED <<ledgerVars, hitVars, defVars, otherVars>>
    \/ /\ RunAnalysis
       /\ UNCHANGED <<ledgerVars, hitVars, defVars, otherVars>>

SpecRun == InitRun /\ [][NextRun]_vars

\* a long season of n games in ascending date order: dates 1..n, home and away
\* alternating, the stat cycling through 0, 1, 2
Season(n) ==
    [i \in 1..n |-> StatRecord(i, 1, IF i % 2 = 0 THEN 1 ELSE 2, i % 3)]

InitSplit ==
    /\ stats \in {Season(n) : n \in 1..MaxSeason}
    /\ shuffles = 0
    /\ venue = NoUpcoming
    /\ line = AnalysisLine
    /\ analysis = <<>>
    /\ series = <<>> /\ hit = <<>>
    /\ IdleLedger /\ IdleDef /\ IdleOther

\* the API returns two of the rows in each other's place
SwapRows(i, j) ==
    /\ shuffles < MaxShuffles
    /\ i < j
    /\ stats' = [stats EXCEPT ![i] = stats[j], ![j] = stats[i]]
    /\ shuffles' = shuffles + 1
    /\ analysis' = <<>>
    /\ UNCHANGED venue

\* the API returns the rows in the opposite order
ReverseRows ==
    /\ stats' = [i \in DOMAIN stats |-> stats[Len(stats) + 1 - i]]
    /\ analysis' = <<>>
    /\ UNCHANGED <<shuffles, venue>>

NextSplit ==
    \/ /\ \E i, j \in DOMAIN stats : SwapRows(i, j)
       /\ UNCHANGED <<ledgerVars, hitVars, defVars, otherVars>>
    \/ /\ ReverseRows
       /\ UNCHANGED <<ledgerVars, hitVars, defVars, otherVars>>
    \/ /\ RunAnalysis
       /\ UNCHANGED <<ledgerVars, hitVars, defVars, otherVars>>

SpecSplit == InitSplit /\ [][NextSplit]_vars

-----------------------------------------------------------------------------
Done == analysis # <<>> /\ analysis.status = "ok"

Min(a, b) == IF a < b THEN a ELSE b

(* C8: for rows with distinct non-null dates, in whatever order the API      *)
(* returns them, the last-10 split of run_analysis is the 10 rows with the   *)
(* latest dates (all rows when there are fewer), in ascending date order;    *)
(* for 15 rows it is rows 6 to 15 of the date-ascending order.               *)
C8_LastTen ==
    Done =>
        LET L == analysis.last10
            rows == stats_list_to_df(stats).rows
        IN  /\ Len(L) = Min(Len(stats), LastN)
            /\ \A k \in 1..(Len(L) - 1) : L[k].date < L[k + 1].date
            /\ Range(L) \subseteq Range(rows)
            /\ \A r \in Range(rows) \ Range(L) : \A k \in DOMAIN L : r.date < L[k].date
            /\ Len(stats) = 15 => \A k \in 1..10 : L[k].date = k + 5

\* the analysis of a 15-game season that the API returned newest first
C8_Witness ==
    /\ Done
    /\ Len(stats) = 15
    /\ stats[1].date = 15
    /\ stats[15].date = 1

\* (0.5*a + 0.3*b + 0.2*c) as one fraction
Blend(a, b, c) ==
    Rat(5 * a.num * b.den * c.den + 3 * b.num * a.den * c.den + 2 * c.num * a.den * b.den,
        10 * a.den * b.den * c.den)

\* 1 when r <= 0, 1 + ((114 - r) / 114) * 0.5 otherwise, as one fraction
Adjustment(r) ==
    IF r.num <= 0 THEN Rat(1, 1) ELSE Rat(342 * r.den - r.num, 228 * r.den)

ContextRows ==
    LET is_home == IF venue.found THEN venue.is_home ELSE TRUE
    IN  SelectSeq(stats, LAMBDA r : (r.team_id = r.home_team_id) = is_home)

NonNull(rows) == SelectSeq(rows, LAMBDA r : r.pts # Null)

RECURSIVE SumPts(_)
SumPts(rows) == IF rows = <<>> THEN 0 ELSE Head(rows).pts + SumPts(Tail(rows))

(* C10 as stated: the average of a split is NaN when the split is empty, and *)
(* whenever the last-10, season or context split is empty the projection of  *)
(* run_analysis is NaN rather than a number.                                 *)
C10_AsStated ==
    Done =>
        /\ ContextRows = <<>> => IsNaN(analysis.context_avg)
        /\ (ContextRows = <<>> \/ analysis.last10 = <<>> \/ stats = <<>>)
              => IsNaN(analysis.projection)

\* a is the average of the split rows: 0.0 for no rows, NaN for rows that are all
\* null, the mean of the non-null values otherwise
AverageOf(rows, a) ==
    LET nn == NonNull(rows)
    IN  IF rows = <<>> THEN a = Rat(0, 1)
        ELSE IF nn = <<>> THEN IsNaN(a)
        ELSE a.den > 0 /\ a.num * Len(nn) = SumPts(nn) * a.den

(* C10 as amended: the average of a split is the mean of its non-null        *)
(* values, 0.0 when the split has no rows and NaN only when it has rows but  *)
(* every value is null; the last-10 and season splits of run_analysis are    *)
(* never empty, an empty context split contributes 0.0, and the projection   *)
(* is NaN exactly when one of the three averages is NaN.                     *)
C10_Averages ==
    Done =>
        /\ AverageOf(ContextRows, analysis.context_avg)
        /\ AverageOf(stats, analysis.season_avg)
        /\ AverageOf(analysis.last10, analysis.last10_avg)
        /\ stats # <<>>
        /\ analysis.last10 # <<>>
        /\ IsNaN(analysis.projection) =
              (IsNaN(analysis.last10_avg) \/ IsNaN(analysis.season_avg)
                 \/ IsNaN(analysis.context_avg))

\* an analysis whose context split is empty and whose projection is a number
C10_Witness ==
    /\ Done
    /\ ContextRows = <<>>
    /\ ~IsNaN(analysis.projection)
    /\ analysis.projection.num > 0

-----------------------------------------------------------------------------
(* stats_list_to_df over raw records of any shape *)

\* what a record can have under "game" and under "team"
Kinds == {"object", "null", "absent"}

\* what a game object can have under "date"
Dates == {Absent, Null, BadDate, 1}

\* the raw records the API may return: the player's team is team 1, the game is
\* at home, the stat is 1
RawSamples == {RawRecord(g, t, d, 1, 1, 1) : g \in Kinds, t \in Kinds, d \in Dates}

InitDf ==
    /\ raw = <<>>
    /\ frame = <<>>
    /\ IdleLedger /\ IdleHit /\ IdleDef /\ IdleRun /\ IdleApi /\ IdleUi

\* the API returns one more record
AddRecord(r) ==
    /\ Len(raw) < MaxRaw
    /\ raw' = Append(raw, r)
    /\ frame' = <<>>

\* the call stats_list_to_df(stats)
Convert ==
    /\ frame = <<>>
    /\ frame' = stats_list_to_df(raw)
    /\ UNCHANGED raw

NextDf ==
    \/ /\ \E r \in RawSamples : AddRecord(r)
       /\ UNCHANGED <<ledgerVars, hitVars, defVars, runVars, apiVars, uiVars>>
    \/ /\ Convert
       /\ UNCHANGED <<ledgerVars, hitVars, defVars, runVars, apiVars, uiVars>>

SpecDf == InitDf /\ [][NextDf]_vars

\* the value of a field of a sub-object that is there, null otherwise
Extracted(kind, value) ==
    IF kind = "object" /\ value \notin {Absent, Null, BadDate} THEN value ELSE Null

(* C12: for every sequence of raw stat records, the game or the team         *)
(* sub-object absent or null and the date absent or unparseable included,    *)
(* stats_list_to_df does not raise and returns one row per record in input   *)
(* order, the fields that could not be extracted null (a date that cannot be *)
(* parsed is a null date and the row is kept).                               *)
C12_RowPerRecord ==
    frame # <<>> =>
        /\ frame.raised = "none"
        /\ Len(frame.rows) = Len(raw)
        /\ \A i \in DOMAIN raw :
             /\ frame.rows[i].date = Extracted(raw[i].game, raw[i].date)
             /\ frame.rows[i].home_team_id = Extracted(raw[i].game, raw[i].home_team_id)
             /\ frame.rows[i].team_id = Extracted(raw[i].team, raw[i].team_id)
             /\ frame.rows[i].pts = raw[i].pts

-----------------------------------------------------------------------------
(* get_player_stats over a paginated endpoint, one loop iteration at a time *)

Cursors == 1..MaxCursor

\* the cursor parameter of a request: none (Null), or a cursor
CursorParams == {Null} \cup Cursors

\* a page is empty or has two records
PageSizes == {0, 2}

\* the records of the page served for cursor c
Records(c, n) == [k \in 1..n |-> <<c, k>>]

\* the endpoint: for every cursor parameter the page it serves, whose next_cursor
\* is any cursor or none (a chain of cursors may come back to an earlier page)
Upstreams ==
    {[c \in CursorParams |-> [data |-> Records(c, n[c]), next_cursor |-> x[c]]] :
        n \in [CursorParams -> PageSizes], x \in [CursorParams -> CursorParams]}

\* the requests of one call the model follows: one more than the longest chain
\* of distinct pages
MaxRequests == MaxCursor + 2

InitApi ==
    /\ pages \in Upstreams
    /\ pc = "idle"
    /\ cursor = Null
    /\ all_stats = <<>>
    /\ requested = <<>>
    /\ response = <<>>
    /\ IdleLedger /\ IdleHit /\ IdleDef /\ IdleRun /\ IdleDf /\ IdleUi

\* the call get_player_stats(player_id, ...): all_stats = [], cursor = None
GetPlayerStats ==
    /\ pc # "loop"
    /\ pc' = "loop"
    /\ cursor' = Null
    /\ all_stats' = <<>>
    /\ requested' = <<>>
    /\ response' = <<>>
    /\ UNCHANGED pages

\* one iteration of the loop: api_get("stats", params) with the cursor, then the
\* two breaks; the return follows the break
FetchPage(outcome) ==
    /\ pc = "loop"
    /\ Len(requested) < MaxRequests
    /\ LET data == api_get(outcome, pages[cursor])
           step == LoopBody(data.value, cursor, all_stats)
       IN  /\ response' = data
           /\ requested' = Append(requested, [cursor |-> cursor, outcome |-> outcome])
           /\ IF data.raised # "none"
              THEN pc' = "raised" /\ UNCHANGED <<cursor, all_stats>>
              ELSE /\ all_stats' = step.all_stats
                   /\ cursor' = step.cursor
                   /\ pc' = IF step.done THEN "done" ELSE "loop"
    /\ UNCHANGED pages

\* the next iteration, whatever the request comes to
Fetch ==
    /\ \E outcome \in Outcomes : FetchPage(outcome)
    /\ UNCHANGED <<ledgerVars, hitVars, defVars, runVars, dfVars, uiVars>>

NextApi ==
    \/ /\ GetPlayerStats
       /\ UNCHANGED <<ledgerVars, hitVars, defVars, runVars, dfVars, uiVars>>
    \/ Fetch

\* the loop is synchronous code: once entered, its next iteration runs
SpecApi == InitApi /\ [][NextApi]_vars /\ WF_vars(Fetch)

(* C11: every call made through api_get that fails in transport (timeout,    *)
(* non-2xx status, response body that is not JSON) gives its caller          *)
(* {"data": []} and no exception; the call sends one request, and its        *)
(* caller sends no further request after the failure.                        *)
C11_FailSoft ==
    /\ [][pc = "loop" =>
            /\ Len(requested') = Len(requested) + 1
            /\ response'.raised = "none"
            /\ response'.outcome # "ok" => response'.value = EmptyResult]_vars
    /\ []((response # <<>> /\ response.outcome # "ok") => pc # "loop")

\* a page with records was fetched, and then a 2xx response had a body that is
\* not JSON
C11_Witness ==
    /\ pc = "done"
    /\ Len(requested) = 2
    /\ response # <<>>
    /\ response.outcome = "not json"
    /\ response.value = EmptyResult
    /\ all_stats # <<>>

\* the page request k of the call got back
Returned(k) ==
    IF requested[k].outcome = "ok" THEN pages[requested[k].cursor] ELSE EmptyResult

\* a page that ends the pagination: no data, or no next_cursor
Stops(p) == p.data = <<>> \/ p.next_cursor = Null

\* the records of the pages the first k requests got back, in order
RECURSIVE RecordsOf(_)
RecordsOf(k) == IF k = 0 THEN <<>> ELSE RecordsOf(k - 1) \o Returned(k).data

\* following next_cursor from cursor parameter c reaches a page that ends the
\* pagination within n pages
RECURSIVE Ends(_, _)
Ends(c, n) ==
    IF n = 0 THEN FALSE
    ELSE Stops(pages[c]) \/ Ends(pages[c].next_cursor, n - 1)

\* the chain of cursors of the endpoint is finite
FiniteChain == Ends(Null, MaxCursor + 1)

Paginated ==
    /\ pc # "raised"
    /\ requested # <<>> => requested[1].cursor = Null
    /\ \A k \in 2..Len(requested) :
         /\ ~Stops(Returned(k - 1))
         /\ requested[k].cursor = Returned(k - 1).next_cursor
    /\ pc = "done" => requested # <<>> /\ Stops(Returned(Len(requested)))
    /\ (pc = "loop" /\ requested # <<>>) => ~Stops(Returned(Len(requested)))
    /\ pc \in {"loop", "done"} => all_stats = RecordsOf(Len(requested))

(* C14: get_player_stats requests the first page without a cursor and each   *)
(* later page with the next_cursor of the page before it, stops at the first *)
(* page with empty data (a failed call included) or without next_cursor, and *)
(* returns in order exactly the records of the pages fetched, those fetched  *)
(* before a failed call included; it terminates when the endpoint's chain of *)
(* cursors is finite.                                                        *)
C14_Pagination ==
    /\ []Paginated
    /\ (pc = "loop" /\ FiniteChain) ~> (pc = "done")

\* two pages with records were fetched, the third request failed, and the call
\* returned the four records of the two pages
C14_Witness ==
    /\ pc = "done"
    /\ Len(requested) = 3
    /\ requested[3].outcome # "ok"
    /\ Len(all_stats) = 4
    /\ FiniteChain

-----------------------------------------------------------------------------
(* The page: every user event re-executes main from the top *)

RunButton == "Run Analysis"
SaveButton == "Save this Prop for Tracking"

\* st.button(label): True only in the execution that the click on it triggered
st_button(label, clicked) == clicked = label

\* the odds text input: empty at first
OddsTexts == {""} \cup OddsInputs

\* the season the page analyses: two home games with 2 and 3 points and no
\* upcoming game, so every average and the projection are 2.5 and game_id is None
UiSeason == <<StatRecord(1, 1, 1, 2), StatRecord(2, 1, 1, 3)>>

\* main up to "Saved Props & Results", with the widget values u, in the execution
\* triggered by a click on the button clicked ("" for any other event).
\* run_analysis, and with it the save button, is executed only under
\* "if st.button('Run Analysis')".
AnalysisSection(u, clicked, f, recs, upcoming, line_value) ==
    LET run == u.player # Null /\ st_button(RunButton, clicked)
        rendered == run /\ run_analysis(recs, upcoming, line_value).status = "ok"
        save == rendered /\ st_button(SaveButton, clicked)
        rec == new_row(u.odds, IF upcoming.found THEN 1 ELSE Null)
    IN  [file |-> IF save THEN save_props(concat(load_saved_props(f), rec)) ELSE f,
         shown |-> rendered,
         rec |-> IF save THEN rec ELSE NoRecord]

InitUi ==
    /\ ui = [player |-> Null, odds |-> "", shown |-> FALSE, event |-> "start"]
    /\ file = NoFile
    /\ upstream = <<>>
    /\ last = [op |-> "init", raised |-> "none", rec |-> NoRecord]
    /\ stats = UiSeason
    /\ shuffles = 0
    /\ venue = NoUpcoming
    /\ line = AnalysisLine
    /\ analysis = <<>>
    /\ series = <<>> /\ hit = <<>>
    /\ IdleDef /\ IdleDf /\ IdleApi

\* main, executed from the top because of the event, u the widget values after it
Rerun(u, event, clicked) ==
    \E top \in {AnalysisSection(u, clicked, file, stats, venue, line)} :
    \E section \in {SavedPropsSection(top.file, upstream)} :
        /\ Len(load_saved_props(file).rows) < MaxRows
        /\ ui' = [u EXCEPT !.shown = top.shown, !.event = event]
        /\ file' = section.file
        /\ last' = [op |-> "rerun", raised |-> section.raised, rec |-> top.rec]
        /\ UNCHANGED upstream

\* the user searches and selects the player
SelectPlayer ==
    /\ ui.player = Null
    /\ Rerun([ui EXCEPT !.player = 7], "select", "")

\* the user types the odds
EditOdds(odds) ==
    /\ odds # ui.odds
    /\ Rerun([ui EXCEPT !.odds = odds], "edit", "")

\* the user clicks "Run Analysis", which is rendered once a player is selected
ClickRun ==
    /\ ui.player # Null
    /\ Rerun(ui, "run", RunButton)

\* the user clicks "Save this Prop for Tracking", which is rendered at the end of
\* an analysis
ClickSave ==
    /\ ui.shown
    /\ Rerun(ui, "save", SaveButton)

NextUi ==
    \/ /\ SelectPlayer
       /\ UNCHANGED <<hitVars, defVars, runVars, dfVars, apiVars>>
    \/ /\ \E odds \in OddsTexts : EditOdds(odds)
       /\ UNCHANGED <<hitVars, defVars, runVars, dfVars, apiVars>>
    \/ /\ ClickRun
       /\ UNCHANGED <<hitVars, defVars, runVars, dfVars, apiVars>>
    \/ /\ ClickSave
       /\ UNCHANGED <<hitVars, defVars, runVars, dfVars, apiVars>>
    \/ /\ \E ans \in Answers : UpstreamUpdate(ans)
       /\ UNCHANGED <<hitVars, defVars, runVars, dfVars, apiVars, uiVars>>

SpecUi == InitUi /\ [][NextUi]_vars

\* new is old and one more row, which is Pending and has the player, the stat,
\* the line, the odds and the projection of rec
SavedOnce(old, new, rec) ==
    /\ Len(new.rows) = Len(old.rows) + 1
    /\ Outcome(new.rows[Len(new.rows)]) = "Pending"
    /\ \A c \in {"player_id", "stat", "line", "odds", "projection"} :
         SameValue(rec[c], RowGet(new.rows[Len(new.rows)], c))

(* C13: whenever the user clicks "Save this Prop for Tracking" after an      *)
(* analysis has been rendered, the execution of main that the click triggers *)
(* appends to the ledger exactly one row with outcome Pending that carries   *)
(* the analysis's player, stat, line, odds and projection.                   *)
C13_SaveAppendsOneRow ==
    [][(ui.shown /\ ui' # ui /\ ui'.event = "save") =>
          SavedOnce(load_saved_props(file), load_saved_props(file'),
                    new_row(ui.odds, Null))]_vars

====
